---- MODULE Spec2Model ----
(***************************************************************************)
(* Duplicate-file detection engine of lume (pkg/scanner, DuplicateScanner). *)
(* A file's content is a sequence of blocks of chunkSize bytes each; a      *)
(* SHA-256 digest is modelled by the byte stream that was fed to the hash   *)
(* (collision-free digest).                                                 *)
(***************************************************************************)
EXTENDS Integers, Sequences, FiniteSets, TLC

(* ---------------------------- program constants ------------------------ *)
chunkSize == 8 * 1024
defaultMinSize == 1024
maxHistoryDays == 90
jobsCap == 256
progressEvery == 200
maxWorkers == 8
minWorkers == 2

(* ------------------------------- bounds --------------------------------- *)
NumCPU == 1
MaxFaulty == 1
ProgressCap == 1
MaxScans == 2
LinkLen == 16        \* bytes of a symbolic link's text
MaxNow == 1          \* seconds the clock may advance
TargetSize == 4096   \* Size of a selected target or file
MaxRecords == 2      \* RecordSnapshot calls
MaxElapse == 2       \* changes of the clock
QueueFiles == 257    \* files of the directory that fills a job channel
MaxModify == 1       \* files another process changes during a scan

(* paths under the root, in the lexical order filepath.Walk visits them *)
WalkOrder == <<"a", "b", "c", "d">>
Paths == {WalkOrder[i] : i \in 1..Len(WalkOrder)}
(* the files of a directory large enough to fill a job channel, in the      *)
(* lexical order of their names, after the names above                      *)
QueuePath(i) == "q" \o ToString(1000 + i)
QueueOrder == [i \in 1..QueueFiles |-> QueuePath(i)]
LastPaths == <<"y", "z">>
LexicalOrder == WalkOrder \o QueueOrder \o LastPaths
SmallTreePaths == {"a", "b", "c"}

(* file contents, in blocks: below the minimum size, small (read in full by *)
(* the quick hash), large with equal head and tail and a differing middle   *)
Contents == { <<>>, <<1>>, <<2>>, <<1, 1, 1>>, <<1, 2, 1>>, <<2, 1, 1>> }
OrderContents == { <<1>>, <<2>>, <<1, 1, 1>> }

(* the stage at which a per-file I/O error hits the file, if any *)
Faults == {"none", "lstat", "quickOpen", "quickRead", "fullRead", "fullStat"}
RootStates == {"ok", "missing", "unreadable"}
(* sizes a caller passes to SetMinSize *)
MTimes == {1, 2}
Hour == 60 * 60
Day == 24 * Hour
ClockSteps == {0 - Hour, Hour, 45 * Day, 91 * Day}
DayWindows == {7, 90}
HistCallers == {1, 2}
NoSnapshot == [Timestamp |-> 0, TotalBytes |-> 0, UsedBytes |-> 0, FreeBytes |-> 0,
               CleanedSize |-> 0, Trigger |-> "", Details |-> ""]
NoArgs == [total |-> 0, used |-> 0, cleanedSize |-> 0, trigger |-> "", details |-> ""]
RecordArgs ==
    {[total |-> 1000000, used |-> 500000, cleanedSize |-> 10000, trigger |-> "test",
      details |-> ""],
     [total |-> 2000000, used |-> 500000, cleanedSize |-> 8192, trigger |-> "duplicates",
      details |-> "1 duplicate groups"]}
TrashPaths == {"a", "b"}
MinSizes == {2 * chunkSize}

NoErr == "nil"
NoPath == "-"
NoHash == [data |-> <<>>, size |-> 0 - 1]
NoKey == <<0 - 1, NoHash>>
EmptyMap == [k \in {} |-> <<>>]

VARIABLES
    fs,              \* the file tree under rootPath: path ->
                     \*   [content, fault, mtime, inode, target, linkLen]
    root,            \* state of rootPath itself
    minSize,         \* DuplicateScanner.minSize
    progressCh,      \* "nil" or "chan"
    progQ,           \* messages buffered in progressCh
    pc,              \* position of the goroutine running Scan
    sizeMap,         \* size -> paths
    candidatePaths,  \* sequence of [path, size]
    totalCandidates,
    quickHashMap,    \* <<size, quick hash>> -> paths
    processed,
    mu,              \* 0 when free, else the worker holding the mutex
    jobs,            \* buffered job channel of the quick stage: [path, size]
    jobsClosed,
    jobs2,           \* buffered job channel of the full stage: paths
    jobs2Closed,
    sent,            \* number of jobs the running producer loop has sent
    wpc,             \* position of each hashing worker
    wjob,            \* the file a worker is processing: [Path, Size]
    wkey,            \* map key the worker computed for wjob
    quickDupGroups,  \* sequence of path lists
    fullHashMap,     \* full hash -> sequence of FileInfo
    result,          \* what Scan returned: [groups, err]
    errored,         \* history: paths on which an I/O call returned an error
    dropped,         \* history: paths left out through an error branch
    scans,           \* history: number of Scan calls started
    prevOrder,       \* history: group hashes, in order, of the previous Scan call
    now,             \* the wall clock, in seconds
    items,           \* what is at each path the cleaner may be given: [kind, state]
    trash,           \* the Trash directory: entry name -> [item, state]
    mt,              \* the running MoveToTrash call: [pc, path, dest, err]
    cl,              \* the running Clean* call
    cancelAt,        \* history: where Scan was when the user left the view, or "none"
    histFile,        \* disk_history.json: [state, data], data a list of JSON objects
    hcall,           \* the RecordSnapshot call of each caller
    loaded,          \* what the last LoadSnapshots call of a view returned
    records,         \* history: number of RecordSnapshot calls started
    elapsed,         \* history: number of changes of the clock
    daily            \* what GetDailySnapshots returned to a view, until the file
                     \* or the clock changes

vars == <<fs, root, minSize, progressCh, progQ, pc, sizeMap, candidatePaths,
          totalCandidates, quickHashMap, processed, mu, jobs, jobsClosed,
          jobs2, jobs2Closed, sent, wpc, wjob, wkey, quickDupGroups, fullHashMap, result,
          errored, dropped, scans, prevOrder, now, items, trash, mt, cl, cancelAt,
          histFile, hcall, loaded, records, elapsed, daily>>

scanLocals == <<sizeMap, candidatePaths, totalCandidates, quickHashMap,
                processed, mu, jobs, jobsClosed, jobs2, jobs2Closed, sent,
                wpc, wjob, wkey,
                quickDupGroups, fullHashMap>>

env == <<fs, root, minSize, progressCh>>

cleanerVars == <<items, trash, mt, cl>>

(* the state neither the scanner nor the cleaner touches *)
historyVars == <<histFile, hcall, loaded, records, elapsed, daily>>

beside == <<cancelAt, historyVars>>

(* the state the scanner does not touch *)
outside == <<now, cleanerVars, beside>>

(* ------------------------------ helpers --------------------------------- *)
Min(a, b) == IF a < b THEN a ELSE b
Max(a, b) == IF a > b THEN a ELSE b

numWorkers == Max(Min(NumCPU, maxWorkers), minWorkers)
Workers == 1..numWorkers

Range(s) == {s[i] : i \in 1..Len(s)}

(* all enumerations of a finite set: the orders a Go map range can take *)
Perms(S) == {s \in [1..Cardinality(S) -> S] : Range(s) = S}

RECURSIVE Flatten(_)
Flatten(ss) == IF ss = <<>> THEN <<>> ELSE Head(ss) \o Flatten(Tail(ss))

(* m[k] = append(m[k], v) on a Go map *)
MapAppend(m, k, v) ==
    IF k \in DOMAIN m THEN [m EXCEPT ![k] = Append(@, v)]
    ELSE m @@ (k :> <<v>>)

(* the path whose data an open or a stat of p reaches: a symbolic link is   *)
(* followed to its target                                                   *)
Resolve(p) == IF fs[p].target # NoPath THEN fs[p].target ELSE p

(* the content os.Open(p) reads *)
ContentOf(p) == fs[Resolve(p)].content

(* Size() of os.Stat(p) and of file.Stat() on the opened file *)
FileSize(p) == Len(ContentOf(p)) * chunkSize

(* Size() of the os.Lstat that filepath.Walk hands to its callback: for a   *)
(* symbolic link, the length of the link text                               *)
LstatSize(p) == IF fs[p].target # NoPath THEN fs[p].linkLen ELSE FileSize(p)

(* ModTime() of os.Stat(p) *)
ModTime(p) == fs[Resolve(p)].mtime

(* SHA-256 of a byte stream, collision-free *)
sha256(data, sizeText) == [data |-> data, size |-> sizeText]

(* ------------------------------ hashing --------------------------------- *)
(* the chunks of a file calculateQuickHash reads, in the order read: all of *)
(* a file of at most two chunks (io.Copy); else the chunk at the start and  *)
(* the chunk file.Read finds after file.Seek(-chunkSize, io.SeekEnd), which *)
(* is the second chunk when Seek failed; a failed Read gives no bytes       *)
quickHashReads(p) ==
    LET n == Len(ContentOf(p))
        fault == fs[p].fault
    IN  IF fault = "quickOpen" THEN <<>>
        ELSE IF FileSize(p) <= chunkSize * 2
        THEN IF fault = "quickRead" THEN <<>> ELSE [i \in 1..n |-> i]
        ELSE IF fault = "quickRead" THEN <<>>
        ELSE IF fault = "quickSeek" THEN <<1, 2>>
        ELSE <<1, n>>

(* calculateQuickHash: the whole file when it is at most two chunks long,   *)
(* else the first chunk, the last chunk and the size; the errors of the two *)
(* sampling reads and of the seek are ignored                               *)
calculateQuickHash(p) ==
    LET f == [content |-> ContentOf(p), fault |-> fs[p].fault]
        data == [i \in 1..Len(quickHashReads(p)) |-> f.content[quickHashReads(p)[i]]]
    IN  IF f.fault = "quickOpen" THEN [hash |-> NoHash, err |-> "open", ioerr |-> TRUE]
        ELSE IF FileSize(p) <= chunkSize * 2
        THEN IF f.fault = "quickRead"
             THEN [hash |-> NoHash, err |-> "read", ioerr |-> TRUE]
             ELSE [hash |-> sha256(data, 0 - 1), err |-> NoErr, ioerr |-> FALSE]
        ELSE [hash |-> sha256(data, FileSize(p)), err |-> NoErr,
              ioerr |-> f.fault \in {"quickRead", "quickSeek"}]

(* variant: the full hash samples the head and the tail like the quick hash *)
calculateFullHashSampled(p) ==
    IF fs[p].fault = "fullRead"
    THEN [hash |-> NoHash, err |-> "read", ioerr |-> TRUE]
    ELSE calculateQuickHash(p)

(* calculateFullHash: SHA-256 of the entire content *)
calculateFullHash(p) ==
    IF fs[p].fault = "fullRead"
    THEN [hash |-> NoHash, err |-> "read", ioerr |-> TRUE]
    ELSE [hash |-> sha256(ContentOf(p), 0 - 1), err |-> NoErr, ioerr |-> FALSE]

(* os.Stat(path) in the full-hash worker *)
osStat(p) ==
    IF fs[p].fault = "fullStat"
    THEN [size |-> 0, mtime |-> 0, err |-> "stat"]
    ELSE [size |-> FileSize(p), mtime |-> ModTime(p), err |-> NoErr]

(* ------------------------- stage 1: walk and classify ------------------- *)
(* the callback given to filepath.Walk; it returns nil in every branch *)
walkFn(sm, p, lstatErr, size) ==
    IF lstatErr THEN [sizeMap |-> sm, ret |-> NoErr]
    ELSE IF size < minSize THEN [sizeMap |-> sm, ret |-> NoErr]
    ELSE [sizeMap |-> MapAppend(sm, size, p), ret |-> NoErr]

(* the callback is called on the files in order until it returns an error; *)
(* a long listing is taken in two halves, the first before the second      *)
RECURSIVE walkFiles(_, _)
walkFiles(ps, sm) ==
    IF ps = <<>> THEN [sizeMap |-> sm, ret |-> NoErr]
    ELSE IF Len(ps) = 1
    THEN LET p == Head(ps)
         IN  walkFn(sm, p, fs[p].fault = "lstat", LstatSize(p))
    ELSE LET half == Len(ps) \div 2
             r == walkFiles(SubSeq(ps, 1, half), sm)
         IN  IF r.ret # NoErr THEN r
             ELSE walkFiles(SubSeq(ps, half + 1, Len(ps)), r.sizeMap)

(* filepath.Walk(rootPath, walkFn): an Lstat error of the root, or an error *)
(* listing it, is handed to the callback and the callback's return value is *)
(* what Walk returns                                                        *)
filepathWalk ==
    IF root = "missing" THEN walkFn(EmptyMap, NoPath, TRUE, 0)
    ELSE IF root = "unreadable" THEN walkFn(EmptyMap, NoPath, TRUE, 0)
    ELSE walkFiles(SelectSeq(LexicalOrder, LAMBDA p : p \in DOMAIN fs), EmptyMap)

(* variant: a size bucket needs more than two paths to be a candidate *)
RECURSIVE collectCandidatesOverTwo(_, _)
collectCandidatesOverTwo(keyOrder, sm) ==
    IF keyOrder = <<>> THEN <<>>
    ELSE LET size == Head(keyOrder)
             rest == collectCandidatesOverTwo(Tail(keyOrder), sm)
         IN  IF Len(sm[size]) > 2
             THEN [i \in 1..Len(sm[size]) |-> [path |-> sm[size][i], size |-> size]] \o rest
             ELSE rest

(* the candidate list built by ranging over sizeMap in the order keyOrder *)
RECURSIVE collectCandidates(_, _)
collectCandidates(keyOrder, sm) ==
    IF keyOrder = <<>> THEN <<>>
    ELSE LET size == Head(keyOrder)
             rest == collectCandidates(Tail(keyOrder), sm)
         IN  IF Len(sm[size]) >= 2
             THEN [i \in 1..Len(sm[size]) |-> [path |-> sm[size][i], size |-> size]] \o rest
             ELSE rest

(* ------------------------- stages 4.5: build and sort ------------------- *)
waste(g) == (Len(g.Files) - 1) * g.Size

(* variant: a group's Size is the total size of its members *)
RECURSIVE buildGroupsTotalSize(_, _)
buildGroupsTotalSize(keyOrder, fm) ==
    IF keyOrder = <<>> THEN <<>>
    ELSE LET h == Head(keyOrder)
             rest == buildGroupsTotalSize(Tail(keyOrder), fm)
         IN  IF Len(fm[h]) > 1
             THEN <<[Hash |-> h, Size |-> fm[h][1].Size * Len(fm[h]), Files |-> fm[h]]>> \o rest
             ELSE rest

(* variant: every digest becomes a group *)
RECURSIVE buildGroupsAny(_, _)
buildGroupsAny(keyOrder, fm) ==
    IF keyOrder = <<>> THEN <<>>
    ELSE LET h == Head(keyOrder)
             rest == buildGroupsAny(Tail(keyOrder), fm)
         IN  IF Len(fm[h]) > 0
             THEN <<[Hash |-> h, Size |-> fm[h][1].Size, Files |-> fm[h]]>> \o rest
             ELSE rest

(* the groups built by ranging over fullHashMap in the order keyOrder *)
RECURSIVE buildGroups(_, _)
buildGroups(keyOrder, fm) ==
    IF keyOrder = <<>> THEN <<>>
    ELSE LET h == Head(keyOrder)
             rest == buildGroups(Tail(keyOrder), fm)
         IN  IF Len(fm[h]) > 1
             THEN <<[Hash |-> h, Size |-> fm[h][1].Size, Files |-> fm[h]]>> \o rest
             ELSE rest

(* GetDuplicateTotalSize: the bytes reported as reclaimable *)
RECURSIVE GetDuplicateTotalSize(_)
GetDuplicateTotalSize(groups) ==
    IF groups = <<>> THEN 0
    ELSE (Len(Head(groups).Files) - 1) * Head(groups).Size
         + GetDuplicateTotalSize(Tail(groups))

(* variant: the comparison is reversed *)
sortLessAscending(gi, gj) == waste(gi) < waste(gj)

(* less(i, j) of the sort.Slice call *)
sortLess(gi, gj) == waste(gi) > waste(gj)

(* sort.Slice on fewer than 12 elements is an insertion sort *)
RECURSIVE insertSorted(_, _)
insertSorted(sorted, g) ==
    IF sorted = <<>> THEN <<g>>
    ELSE LET last == sorted[Len(sorted)]
         IN  IF sortLess(g, last)
             THEN Append(insertSorted(SubSeq(sorted, 1, Len(sorted) - 1), g), last)
             ELSE Append(sorted, g)

RECURSIVE sortSlice(_)
sortSlice(gs) ==
    IF gs = <<>> THEN <<>>
    ELSE insertSorted(sortSlice(SubSeq(gs, 1, Len(gs) - 1)), gs[Len(gs)])

(* ------------------------------- initial states ------------------------ *)
(* a regular file with its own inode *)
RegularFile(p, content, fault, mtime) ==
    [content |-> content, fault |-> fault, mtime |-> mtime, inode |-> p,
     target |-> NoPath, linkLen |-> 0]

Trees(P, C, F, maxFaulty) ==
    {[p \in P |-> RegularFile(p, t[p].content, t[p].fault, 0)] :
        t \in {u \in [P -> [content : C, fault : F]] :
                  Cardinality({p \in P : u[p].fault # "none"}) <= maxFaulty}}

NoResult == [groups |-> <<>>, err |-> "pending"]
NoOrder == <<NoHash>>
NoJob == [Path |-> NoPath, Size |-> 0, Modified |-> 0]

InitLocals ==
    /\ sizeMap = EmptyMap
    /\ candidatePaths = <<>>
    /\ totalCandidates = 0
    /\ quickHashMap = EmptyMap
    /\ processed = 0
    /\ mu = 0
    /\ jobs = <<>>
    /\ jobsClosed = FALSE
    /\ jobs2 = <<>>
    /\ jobs2Closed = FALSE
    /\ sent = 0
    /\ wpc = [w \in Workers |-> "off"]
    /\ wjob = [w \in Workers |-> NoJob]
    /\ wkey = [w \in Workers |-> NoKey]
    /\ quickDupGroups = <<>>
    /\ fullHashMap = EmptyMap

(* NewDuplicateScanner(rootPath) over a given tree and progress sink *)
(* the history file: missing, unparsable, or a JSON array *)
AbsentFile == [state |-> "absent", data |-> <<>>]
CorruptFile == [state |-> "corrupt", data |-> <<>>]
JsonFile(data) == [state |-> "json", data |-> data]

NoCall == [pc |-> "idle", at |-> 0, args |-> NoArgs, prior |-> AbsentFile,
           snapshots |-> <<>>, err |-> NoErr]
NoLoad == [snaps |-> <<>>, err |-> "pending", file |-> AbsentFile, after |-> 0 - 1]
NoDaily == [snaps |-> <<>>, err |-> "pending", file |-> AbsentFile, days |-> 0, at |-> 0]

(* NewHistoryManager() in a data directory without a history file *)
InitHistory ==
    /\ histFile = AbsentFile
    /\ hcall = [c \in HistCallers |-> NoCall]
    /\ loaded = NoLoad
    /\ daily = NoDaily
    /\ records = 0
    /\ elapsed = 0

(* no entry name / time stamp of the Trash *)
NoStamp == 0 - 1
FinderStamp == 0 - 2
NoDest == <<NoPath, NoStamp>>
EmptyTrash == [k \in {} |-> [item |-> NoPath, state |-> "complete"]]

NoMove == [pc |-> "idle", path |-> NoPath, was |-> "intact", dest |-> NoDest, err |-> NoErr]
NoClean == [op |-> "none", pc |-> "idle", keepNewest |-> FALSE, groups |-> <<>>,
            todo |-> <<>>, totalSize |-> 0, failed |-> <<>>, outcome |-> <<>>,
            ret |-> [size |-> 0, err |-> "pending"]]

(* NewCleaner(): nothing moved yet *)
InitCleaner ==
    /\ now = 0
    /\ trash = EmptyTrash
    /\ mt = NoMove
    /\ cl = NoClean

(* the files of the scanned tree, as the cleaner finds them *)
FileItems == [p \in DOMAIN fs |-> [kind |-> "file", state |-> "intact"]]

InitRun ==
    /\ InitCleaner
    /\ InitHistory
    /\ cancelAt = "none"
    /\ pc = "idle"
    /\ progQ = <<>>
    /\ result = NoResult
    /\ errored = {}
    /\ dropped = {}
    /\ scans = 0
    /\ prevOrder = NoOrder
    /\ InitLocals

InitScanner ==
    /\ minSize = defaultMinSize
    /\ items = FileItems
    /\ InitRun

(* the UI's call: Scan(nil) on any tree of three files, any root state *)
Init ==
    /\ root \in RootStates
    /\ IF root = "ok"
       THEN fs \in Trees(SmallTreePaths, Contents, Faults, MaxFaulty)
       ELSE fs = [p \in {} |-> RegularFile(p, <<>>, "none", 0)]
    /\ progressCh = "nil"
    /\ InitScanner

(* large files whose sampling reads may fail *)
InitFaults ==
    /\ root = "ok"
    /\ fs \in Trees(SmallTreePaths, {<<1, 1, 1>>, <<1, 2, 1>>},
                    {"none", "quickRead", "quickSeek"},
                    Cardinality(SmallTreePaths))
    /\ progressCh = "nil"
    /\ InitScanner

(* more files than a job channel holds, all of one size, that cannot be    *)
(* opened, and after them two readable copies of a file of that size        *)
InitQueue ==
    /\ root = "ok"
    /\ fs = [p \in Range(QueueOrder) \cup Range(LastPaths) |->
               IF p \in Range(LastPaths) THEN RegularFile(p, <<1, 1, 1>>, "none", 0)
               ELSE RegularFile(p, <<1, 1, 1>>, "quickOpen", 0)]
    /\ progressCh = "nil"
    /\ InitScanner

(* a caller passing a progress channel *)
InitProgress ==
    /\ root = "ok"
    /\ fs \in Trees(SmallTreePaths, {<<1>>, <<2>>}, {"none"}, 0)
    /\ progressCh = "chan"
    /\ InitScanner

(* the ways a second path can stand beside the file "a": a copy of it, a    *)
(* file of other content, a hard link to it, a symbolic link to it          *)
LinkKinds == {"copy", "other", "hard", "sym"}

Entry(p, kind) ==
    CASE kind = "copy"  -> RegularFile(p, <<1>>, "none", 0)
      [] kind = "other" -> RegularFile(p, <<2>>, "none", 0)
      [] kind = "hard"  -> [RegularFile(p, <<1>>, "none", 0) EXCEPT !.inode = "a"]
      [] kind = "sym"   -> [content |-> <<>>, fault |-> "none", mtime |-> 0, inode |-> p,
                            target |-> "a", linkLen |-> LinkLen]

(* a tree holding hard links and symbolic links, scanned by a caller that   *)
(* lowered the minimum size to the length of a link's text                  *)
InitLinks ==
    /\ root = "ok"
    /\ \E kb \in LinkKinds, kc \in LinkKinds :
           fs = [p \in SmallTreePaths |->
                    IF p = "a" THEN RegularFile(p, <<1>>, "none", 0)
                    ELSE IF p = "b" THEN Entry(p, kb) ELSE Entry(p, kc)]
    /\ progressCh = "nil"
    /\ minSize = LinkLen
    /\ items = FileItems
    /\ InitRun

(* four readable files, scanned repeatedly *)
InitRescan ==
    /\ root = "ok"
    /\ fs \in Trees(Paths, OrderContents, {"none"}, 0)
    /\ progressCh = "nil"
    /\ InitScanner

(* --------------------------------- Scan --------------------------------- *)
AfterSend(at) ==
    CASE at = "send1" -> "walk"
      [] at = "send2" -> "spawn2"
      [] at = "send3" -> "spawn3"

ProgressMsg(at) ==
    CASE at = "send1" -> [text |-> "Stage 1: Collecting file info", n |-> 0]
      [] at = "send2" -> [text |-> "Stage 2: Quick hash candidate files", n |-> totalCandidates]
      [] at = "send3" -> [text |-> "Stage 3: Full hash potential duplicate groups",
                          n |-> Len(quickDupGroups)]

(* if progressCh != nil { progressCh <- ... } ahead of the position next *)
ViaProgress(sendAt) == IF progressCh # "nil" THEN sendAt ELSE AfterSend(sendAt)

(* SetMinSize(size) on the new scanner *)
SetMinSize ==
    /\ pc = "idle"
    /\ \E size \in MinSizes : size # minSize /\ minSize' = size
    /\ UNCHANGED <<outside, fs, root, progressCh, progQ, pc, scanLocals, result, errored, dropped,
                   scans, prevOrder>>

(* Scan is called *)
StartScan ==
    /\ pc = "idle"
    /\ scans < MaxScans
    /\ scans' = scans + 1
    /\ pc' = ViaProgress("send1")
    /\ UNCHANGED <<outside, env, progQ, scanLocals, result, errored, dropped, prevOrder>>

(* progressCh <- msg: the sending goroutine (0: the one running Scan, at a  *)
(* stage message; w: a quick-hash worker, inside the mutex) waits for room  *)
ProgressSend ==
    \E t \in {0} \cup Workers :
        /\ IF t = 0 THEN pc \in {"send1", "send2", "send3"} ELSE wpc[t] = "send"
        /\ Len(progQ) < ProgressCap
        /\ progQ' = Append(progQ, IF t = 0 THEN ProgressMsg(pc)
                                  ELSE [text |-> "Quick hashing", n |-> processed])
        /\ pc' = IF t = 0 THEN AfterSend(pc) ELSE pc
        /\ mu' = IF t = 0 THEN mu ELSE 0
        /\ wpc' = IF t = 0 THEN wpc ELSE [wpc EXCEPT ![t] = "recv"]
        /\ UNCHANGED <<outside, env, sizeMap, candidatePaths, totalCandidates, quickHashMap,
                       processed, jobs, jobsClosed, jobs2, jobs2Closed, sent, wjob,
                       wkey, quickDupGroups, fullHashMap, result, errored, dropped,
                       scans, prevOrder>>

(* the caller's side of progressCh takes a message *)
ProgressRecv ==
    /\ progressCh = "chan"
    /\ progQ # <<>>
    /\ progQ' = Tail(progQ)
    /\ UNCHANGED <<outside, env, pc, scanLocals, result, errored, dropped, scans, prevOrder>>

(* stage 1: walk, group by size, collect the candidates *)
WalkAndClassify ==
    /\ pc = "walk"
    /\ LET w == filepathWalk
           failed == {p \in DOMAIN fs : root = "ok" /\ fs[p].fault = "lstat"}
       IN  /\ errored' = errored \cup failed
           /\ dropped' = dropped \cup failed
           /\ sizeMap' = w.sizeMap
           /\ IF w.ret # NoErr
              THEN /\ result' = [groups |-> <<>>, err |-> w.ret]
                   /\ pc' = "done"
                   /\ UNCHANGED <<candidatePaths, totalCandidates>>
              ELSE /\ \E keyOrder \in Perms(DOMAIN w.sizeMap) :
                          candidatePaths' = collectCandidates(keyOrder, w.sizeMap)
                   /\ totalCandidates' = Len(candidatePaths')
                   /\ pc' = ViaProgress("send2")
                   /\ UNCHANGED result
    /\ UNCHANGED <<outside, env, progQ, quickHashMap, processed, mu, jobs, jobsClosed, jobs2,
                   jobs2Closed, sent, wpc, wjob, wkey, quickDupGroups, fullHashMap,
                   scans, prevOrder>>

(* stage 2 set-up: the map, the mutex, the job channel and the workers *)
StartQuickStage ==
    /\ pc = "spawn2"
    /\ quickHashMap' = EmptyMap
    /\ mu' = 0
    /\ jobs' = <<>>
    /\ jobsClosed' = FALSE
    /\ processed' = 0
    /\ sent' = 0
    /\ wpc' = [w \in Workers |-> "recv"]
    /\ pc' = "produce2"
    /\ UNCHANGED <<outside, env, progQ, sizeMap, candidatePaths, totalCandidates, jobs2,
                   jobs2Closed, wjob, wkey, quickDupGroups, fullHashMap, result,
                   errored, dropped, scans, prevOrder>>

(* variant: the send does not wait for room in the channel *)
ProduceQuickUnbounded ==
    /\ pc = "produce2"
    /\ sent < Len(candidatePaths)
    /\ jobs' = Append(jobs, candidatePaths[sent + 1])
    /\ sent' = sent + 1
    /\ UNCHANGED <<outside, env, progQ, pc, sizeMap, candidatePaths, totalCandidates,
                   quickHashMap, processed, mu, jobsClosed, jobs2, jobs2Closed, wpc,
                   wjob, wkey, quickDupGroups, fullHashMap, result, errored, dropped,
                   scans, prevOrder>>

(* jobs <- c *)
ProduceQuick ==
    /\ pc = "produce2"
    /\ sent < Len(candidatePaths)
    /\ Len(jobs) < jobsCap
    /\ jobs' = Append(jobs, candidatePaths[sent + 1])
    /\ sent' = sent + 1
    /\ UNCHANGED <<outside, env, progQ, pc, sizeMap, candidatePaths, totalCandidates,
                   quickHashMap, processed, mu, jobsClosed, jobs2, jobs2Closed, wpc,
                   wjob, wkey, quickDupGroups, fullHashMap, result, errored, dropped,
                   scans, prevOrder>>

(* variant: the producer goes on to wg.Wait() without closing the channel *)
CloseQuickForgotten ==
    /\ pc = "produce2"
    /\ sent = Len(candidatePaths)
    /\ pc' = "wait2"
    /\ UNCHANGED <<outside, env, progQ, sizeMap, candidatePaths, totalCandidates, quickHashMap,
                   processed, mu, jobs, jobsClosed, jobs2, jobs2Closed, sent, wpc, wjob,
                   wkey, quickDupGroups, fullHashMap, result, errored, dropped, scans,
                   prevOrder>>

(* close(jobs) *)
CloseQuick ==
    /\ pc = "produce2"
    /\ sent = Len(candidatePaths)
    /\ jobsClosed' = TRUE
    /\ pc' = "wait2"
    /\ UNCHANGED <<outside, env, progQ, sizeMap, candidatePaths, totalCandidates, quickHashMap,
                   processed, mu, jobs, jobs2, jobs2Closed, sent, wpc, wjob, wkey,
                   quickDupGroups, fullHashMap, result, errored, dropped, scans,
                   prevOrder>>

(* a quick-hash worker takes a job and fingerprints the file *)
QuickRecvHash(w) ==
    /\ pc \in {"produce2", "wait2"}
    /\ wpc[w] = "recv"
    /\ jobs # <<>>
    /\ LET job == Head(jobs)
           h == calculateQuickHash(job.path)
       IN  /\ jobs' = Tail(jobs)
           /\ errored' = IF h.ioerr THEN errored \cup {job.path} ELSE errored
           /\ IF h.err # NoErr
              THEN /\ dropped' = dropped \cup {job.path}
                   /\ UNCHANGED <<wpc, wjob, wkey>>
              ELSE /\ wjob' = [wjob EXCEPT ![w] = [Path |-> job.path, Size |-> job.size,
                                                   Modified |-> 0]]
                   /\ wkey' = [wkey EXCEPT ![w] = <<job.size, h.hash>>]
                   /\ wpc' = [wpc EXCEPT ![w] = "lock"]
                   /\ UNCHANGED dropped
    /\ UNCHANGED <<outside, env, progQ, pc, sizeMap, candidatePaths, totalCandidates,
                   quickHashMap, processed, mu, jobsClosed, jobs2, jobs2Closed, sent,
                   quickDupGroups, fullHashMap, result, scans, prevOrder>>

(* variant: Lock returns without waiting for the holder *)
WorkerLockNoWait(w) ==
    /\ wpc[w] = "lock"
    /\ mu' = w
    /\ wpc' = [wpc EXCEPT ![w] = "crit"]
    /\ UNCHANGED <<outside, env, progQ, pc, sizeMap, candidatePaths, totalCandidates,
                   quickHashMap, processed, jobs, jobsClosed, jobs2, jobs2Closed, sent,
                   wjob, wkey, quickDupGroups, fullHashMap, result, errored, dropped,
                   scans, prevOrder>>

(* mu.Lock() *)
WorkerLock(w) ==
    /\ wpc[w] = "lock"
    /\ mu = 0
    /\ mu' = w
    /\ wpc' = [wpc EXCEPT ![w] = "crit"]
    /\ UNCHANGED <<outside, env, progQ, pc, sizeMap, candidatePaths, totalCandidates,
                   quickHashMap, processed, jobs, jobsClosed, jobs2, jobs2Closed, sent,
                   wjob, wkey, quickDupGroups, fullHashMap, result, errored, dropped,
                   scans, prevOrder>>

(* the quick stage's critical section, up to mu.Unlock() or the progress send *)
QuickUpdate(w) ==
    /\ pc \in {"produce2", "wait2"}
    /\ wpc[w] = "crit"
    /\ quickHashMap' = MapAppend(quickHashMap, wkey[w], wjob[w].Path)
    /\ processed' = processed + 1
    /\ IF progressCh # "nil" /\ processed' % progressEvery = 0
       THEN /\ wpc' = [wpc EXCEPT ![w] = "send"]
            /\ UNCHANGED mu
       ELSE /\ wpc' = [wpc EXCEPT ![w] = "recv"]
            /\ mu' = 0
    /\ UNCHANGED <<outside, env, progQ, pc, sizeMap, candidatePaths, totalCandidates, jobs,
                   jobsClosed, jobs2, jobs2Closed, sent, wjob, wkey, quickDupGroups,
                   fullHashMap, result, errored, dropped, scans, prevOrder>>

(* range over a closed, drained job channel ends; deferred wg.Done() *)
WorkerExit(w) ==
    /\ wpc[w] = "recv"
    /\ \/ pc \in {"produce2", "wait2"} /\ jobs = <<>> /\ jobsClosed
       \/ pc \in {"produce3", "wait3"} /\ jobs2 = <<>> /\ jobs2Closed
    /\ wpc' = [wpc EXCEPT ![w] = "done"]
    /\ UNCHANGED <<outside, env, progQ, pc, sizeMap, candidatePaths, totalCandidates,
                   quickHashMap, processed, mu, jobs, jobsClosed, jobs2, jobs2Closed,
                   sent, wjob, wkey, quickDupGroups, fullHashMap, result, errored,
                   dropped, scans, prevOrder>>

(* the quick-hash collisions, ranging over quickHashMap in the order keyOrder *)
RECURSIVE collectQuickDups(_, _)
collectQuickDups(keyOrder, qm) ==
    IF keyOrder = <<>> THEN <<>>
    ELSE LET rest == collectQuickDups(Tail(keyOrder), qm)
         IN  IF Len(qm[Head(keyOrder)]) >= 2 THEN <<qm[Head(keyOrder)]>> \o rest ELSE rest

(* wg.Wait() returns; the quick-hash collisions are collected *)
WaitQuick ==
    /\ pc = "wait2"
    /\ \A w \in Workers : wpc[w] = "done"
    /\ \E keyOrder \in Perms(DOMAIN quickHashMap) :
           quickDupGroups' = collectQuickDups(keyOrder, quickHashMap)
    /\ pc' = ViaProgress("send3")
    /\ UNCHANGED <<outside, env, progQ, sizeMap, candidatePaths, totalCandidates, quickHashMap,
                   processed, mu, jobs, jobsClosed, jobs2, jobs2Closed, sent, wpc, wjob,
                   wkey, fullHashMap, result, errored, dropped, scans, prevOrder>>

(* stage 3 set-up: the full-hash map, the second job channel, the workers *)
StartFullStage ==
    /\ pc = "spawn3"
    /\ fullHashMap' = EmptyMap
    /\ jobs2' = <<>>
    /\ jobs2Closed' = FALSE
    /\ sent' = 0
    /\ wpc' = [w \in Workers |-> "recv"]
    /\ pc' = "produce3"
    /\ UNCHANGED <<outside, env, progQ, sizeMap, candidatePaths, totalCandidates, quickHashMap,
                   processed, mu, jobs, jobsClosed, wjob, wkey, quickDupGroups, result,
                   errored, dropped, scans, prevOrder>>

(* jobs2 <- p *)
ProduceFull ==
    /\ pc = "produce3"
    /\ sent < Len(Flatten(quickDupGroups))
    /\ Len(jobs2) < jobsCap
    /\ jobs2' = Append(jobs2, Flatten(quickDupGroups)[sent + 1])
    /\ sent' = sent + 1
    /\ UNCHANGED <<outside, env, progQ, pc, sizeMap, candidatePaths, totalCandidates,
                   quickHashMap, processed, mu, jobs, jobsClosed, jobs2Closed, wpc, wjob,
                   wkey, quickDupGroups, fullHashMap, result, errored, dropped, scans,
                   prevOrder>>

(* close(jobs2) *)
CloseFull ==
    /\ pc = "produce3"
    /\ sent = Len(Flatten(quickDupGroups))
    /\ jobs2Closed' = TRUE
    /\ pc' = "wait3"
    /\ UNCHANGED <<outside, env, progQ, sizeMap, candidatePaths, totalCandidates, quickHashMap,
                   processed, mu, jobs, jobsClosed, jobs2, sent, wpc, wjob, wkey,
                   quickDupGroups, fullHashMap, result, errored, dropped, scans,
                   prevOrder>>

(* a full-hash worker takes a path, hashes the whole file and stats it *)
FullRecvHash(w) ==
    /\ pc \in {"produce3", "wait3"}
    /\ wpc[w] = "recv"
    /\ jobs2 # <<>>
    /\ LET path == Head(jobs2)
           h == calculateFullHash(path)
           info == osStat(path)
       IN  /\ jobs2' = Tail(jobs2)
           /\ IF h.err # NoErr \/ info.err # NoErr
              THEN /\ errored' = errored \cup {path}
                   /\ dropped' = dropped \cup {path}
                   /\ UNCHANGED <<wpc, wjob, wkey>>
              ELSE /\ wjob' = [wjob EXCEPT ![w] = [Path |-> path, Size |-> info.size,
                                                   Modified |-> info.mtime]]
                   /\ wkey' = [wkey EXCEPT ![w] = <<0 - 1, h.hash>>]
                   /\ wpc' = [wpc EXCEPT ![w] = "lock"]
                   /\ UNCHANGED <<errored, dropped>>
    /\ UNCHANGED <<outside, env, progQ, pc, sizeMap, candidatePaths, totalCandidates,
                   quickHashMap, processed, mu, jobs, jobsClosed, jobs2Closed, sent,
                   quickDupGroups, fullHashMap, result, scans, prevOrder>>

(* the full stage's critical section, up to mu.Unlock() *)
FullUpdate(w) ==
    /\ pc \in {"produce3", "wait3"}
    /\ wpc[w] = "crit"
    /\ fullHashMap' = MapAppend(fullHashMap, wkey[w][2], wjob[w])
    /\ mu' = 0
    /\ wpc' = [wpc EXCEPT ![w] = "recv"]
    /\ UNCHANGED <<outside, env, progQ, pc, sizeMap, candidatePaths, totalCandidates,
                   quickHashMap, processed, jobs, jobsClosed, jobs2, jobs2Closed, sent,
                   wjob, wkey, quickDupGroups, result, errored, dropped, scans,
                   prevOrder>>

(* wg2.Wait() returns; the groups are built, sorted and returned *)
WaitFullBuild ==
    /\ pc = "wait3"
    /\ \A w \in Workers : wpc[w] = "done"
    /\ \E keyOrder \in Perms(DOMAIN fullHashMap) :
           result' = [groups |-> sortSlice(buildGroups(keyOrder, fullHashMap)),
                      err |-> NoErr]
    /\ pc' = "done"
    /\ UNCHANGED <<outside, env, progQ, scanLocals, errored, dropped, scans, prevOrder>>

(* the caller makes a new scanner over the same tree for another scan *)
NewDuplicateScanner ==
    /\ pc = "done"
    /\ scans < MaxScans
    /\ prevOrder' = [i \in 1..Len(result.groups) |-> result.groups[i].Hash]
    /\ minSize' = defaultMinSize
    /\ pc' = "idle"
    /\ result' = NoResult
    /\ errored' = {}
    /\ dropped' = {}
    /\ sizeMap' = EmptyMap
    /\ candidatePaths' = <<>>
    /\ totalCandidates' = 0
    /\ quickHashMap' = EmptyMap
    /\ processed' = 0
    /\ mu' = 0
    /\ jobs' = <<>>
    /\ jobsClosed' = FALSE
    /\ jobs2' = <<>>
    /\ jobs2Closed' = FALSE
    /\ sent' = 0
    /\ wpc' = [w \in Workers |-> "off"]
    /\ wjob' = [w \in Workers |-> NoJob]
    /\ wkey' = [w \in Workers |-> NoKey]
    /\ quickDupGroups' = <<>>
    /\ fullHashMap' = EmptyMap
    /\ UNCHANGED <<outside, fs, root, progressCh, progQ, scans>>

QuickWorker == \E w \in Workers : QuickRecvHash(w) \/ QuickUpdate(w)
FullWorker == \E w \in Workers : FullRecvHash(w) \/ FullUpdate(w)
WorkerSync == \E w \in Workers : WorkerLock(w) \/ WorkerExit(w)

Next ==
    \/ SetMinSize
    \/ StartScan
    \/ WalkAndClassify
    \/ StartQuickStage \/ ProduceQuick \/ CloseQuick \/ QuickWorker \/ WaitQuick
    \/ StartFullStage \/ ProduceFull \/ CloseFull \/ FullWorker \/ WaitFullBuild
    \/ WorkerSync

NextProgress == Next \/ ProgressSend \/ ProgressRecv

NextRescan == Next \/ NewDuplicateScanner

Spec == Init /\ [][Next]_vars

SpecProgress == InitProgress /\ [][NextProgress]_vars

SpecFaults == InitFaults /\ [][Next]_vars

SpecRescan == InitRescan /\ [][NextRescan]_vars

SpecLinks == InitLinks /\ [][Next]_vars

SpecQueue == InitQueue /\ [][Next]_vars

(* the steps of the goroutines of a running Scan; the Go scheduler runs a   *)
(* goroutine that can take a step                                           *)
Running ==
    \/ WalkAndClassify
    \/ StartQuickStage \/ ProduceQuick \/ CloseQuick \/ QuickWorker \/ WaitQuick
    \/ StartFullStage \/ ProduceFull \/ CloseFull \/ FullWorker \/ WaitFullBuild
    \/ WorkerSync

(* the faults on which a worker skips a job *)
SkipFaults == {"none", "quickOpen", "fullRead", "fullStat"}

(* three copies of a file, at most MaxFaulty of them failing at some stage *)
InitLive ==
    /\ root \in RootStates
    /\ IF root = "ok"
       THEN fs \in Trees(SmallTreePaths, {<<1, 1, 1>>}, SkipFaults, MaxFaulty)
       ELSE fs = [p \in {} |-> RegularFile(p, <<>>, "none", 0)]
    /\ progressCh = "nil"
    /\ InitScanner

SpecLive == InitLive /\ [][Next]_vars /\ WF_vars(Running)

(* three files of one size and one quick fingerprint, of two contents, at   *)
(* most MaxFaulty of them failing at some stage                             *)
InitMaps ==
    /\ root = "ok"
    /\ fs \in Trees(SmallTreePaths, {<<1, 1, 1>>, <<1, 2, 1>>}, SkipFaults, MaxFaulty)
    /\ progressCh = "nil"
    /\ InitScanner

SpecMaps == InitMaps /\ [][Next]_vars

(* --------------------- a file changed during the scan ------------------- *)
(* what another process writes into a file *)
RaceContents == {<<1, 1, 1>>, <<1, 2, 1>>, <<2>>}

(* the files another process has written to since the scan began *)
Changed == {p \in DOMAIN fs : fs[p].mtime > 0}

(* calculateQuickHash(p) has returned a digest to a worker of this scan *)
QuickHashDone(p) ==
    \/ \E k \in DOMAIN quickHashMap : p \in Range(quickHashMap[k])
    \/ /\ pc \in {"produce2", "wait2"}
       /\ \E w \in Workers : wpc[w] \in {"lock", "crit"} /\ wjob[w].Path = p

(* calculateFullHash(p) is still to be called *)
FullHashAhead(p) ==
    \/ pc \in {"produce2", "wait2", "send3", "spawn3"}
    \/ /\ pc \in {"produce3", "wait3"}
       /\ \/ p \in Range(jobs2)
          \/ \E i \in (sent + 1)..Len(Flatten(quickDupGroups)) :
                Flatten(quickDupGroups)[i] = p

(* another process replaces the content of a file between the quick hash    *)
(* and the full hash of that file                                           *)
ModifyFile ==
    /\ Cardinality(Changed) < MaxModify
    /\ \E p \in DOMAIN fs :
         /\ fs[p].mtime = 0
         /\ QuickHashDone(p)
         /\ FullHashAhead(p)
         /\ \E c \in RaceContents \ {fs[p].content} :
               fs' = [fs EXCEPT ![p].content = c, ![p].mtime = 1]
    /\ UNCHANGED <<outside, root, minSize, progressCh, progQ, pc, scanLocals, result,
                   errored, dropped, scans, prevOrder>>

NextRace == Next \/ ModifyFile

(* three readable files of one size and one quick fingerprint *)
InitRace ==
    /\ root = "ok"
    /\ fs \in Trees(SmallTreePaths, {<<1, 1, 1>>, <<1, 2, 1>>}, {"none"}, 0)
    /\ progressCh = "nil"
    /\ InitScanner

SpecRace == InitRace /\ [][NextRace]_vars

(* the view's key handler while m.scanning: esc leaves the view, q quits;   *)
(* nothing is passed to the goroutine running Scan                          *)
Cancel ==
    /\ pc \notin {"idle", "done"}
    /\ cancelAt = "none"
    /\ cancelAt' = pc
    /\ UNCHANGED <<env, progQ, pc, scanLocals, result, errored, dropped, scans, prevOrder,
                   now, cleanerVars, historyVars>>

NextCancel == Next \/ Cancel

(* three small files, scanned by a view the user may leave *)
InitCancel ==
    /\ root = "ok"
    /\ fs \in Trees(SmallTreePaths, {<<1>>, <<2>>}, {"none"}, 0)
    /\ progressCh = "nil"
    /\ InitScanner

SpecCancel == InitCancel /\ [][NextCancel]_vars

(* ------------------------------- cleaner -------------------------------- *)
scannerVars == <<env, progQ, pc, scanLocals, result, errored, dropped, scans, prevOrder>>

(* filepath.Base(path): the files a and b, and c and d, lie in different    *)
(* directories under the same name                                          *)
BaseName(p) ==
    CASE p = "a" -> "f"
      [] p = "b" -> "f"
      [] p = "c" -> "g"
      [] p = "d" -> "g"

(* the Trash holds a complete copy of the item that was at p *)
InTrash(p) == \E k \in DOMAIN trash : trash[k].item = p /\ trash[k].state = "complete"

(* writing an entry of the Trash, over whatever was under that name *)
PutTrash(k, e) == [x \in DOMAIN trash \cup {k} |-> IF x = k THEN e ELSE trash[x]]

(* what the osascript call can come back with: the item is in the Trash;    *)
(* the command failed; the item is in the Trash and the output holds the    *)
(* word "error"                                                             *)
FinderOutcomes == {"moved", "failed", "movedErrorText"}

(* MoveToTrash: the existence check and the Finder tier *)
MoveToTrash ==
    /\ mt.pc = "finder"
    /\ IF items[mt.path].state = "gone"
       THEN /\ mt' = [mt EXCEPT !.pc = "ret", !.err = "file not found"]
            /\ UNCHANGED <<items, trash>>
       ELSE \E out \in FinderOutcomes :
              IF out = "failed"
              THEN /\ mt' = [mt EXCEPT !.pc = "direct"]
                   /\ UNCHANGED <<items, trash>>
              ELSE /\ items' = [items EXCEPT ![mt.path].state = "gone"]
                   /\ trash' = PutTrash(<<mt.path, FinderStamp>>,
                                        [item |-> mt.path, state |-> "complete"])
                   /\ mt' = IF out = "moved"
                            THEN [mt EXCEPT !.pc = "ret", !.err = NoErr]
                            ELSE [mt EXCEPT !.pc = "direct"]
    /\ UNCHANGED <<scannerVars, beside, now, cl>>

(* destPath: the base name, or base_timestamp when that name is taken *)
destPath(p) ==
    IF <<BaseName(p), NoStamp>> \in DOMAIN trash
    THEN <<BaseName(p), now>>
    ELSE <<BaseName(p), NoStamp>>

(* directMoveToTrash: os.Rename, and on its failure os.Stat of the source *)
directMoveToTrash ==
    /\ mt.pc = "direct"
    /\ LET p == mt.path
           dest == destPath(p)
       IN  \E renamed \in BOOLEAN :
             IF items[p].state = "gone"
             THEN /\ mt' = [mt EXCEPT !.pc = "ret", !.dest = dest, !.err = "stat"]
                  /\ UNCHANGED <<items, trash>>
             ELSE IF renamed
             THEN /\ items' = [items EXCEPT ![p].state = "gone"]
                  /\ trash' = PutTrash(dest, [item |-> p,
                                  state |-> IF items[p].state = "intact"
                                            THEN "complete" ELSE "partial"])
                  /\ mt' = [mt EXCEPT !.pc = "ret", !.dest = dest, !.err = NoErr]
             ELSE /\ mt' = [mt EXCEPT !.pc = "copy", !.dest = dest]
                  /\ UNCHANGED <<items, trash>>
    /\ UNCHANGED <<scannerVars, beside, now, cl>>

(* CopyFile / copyDir into the Trash: a failure leaves nothing, or the part *)
(* written so far, under the destination name                               *)
CopyToTrash ==
    /\ mt.pc = "copy"
    /\ \E copied \in {"all", "part", "nothing"} :
         /\ trash' = IF copied = "nothing" THEN trash
                     ELSE PutTrash(mt.dest,
                              [item |-> mt.path,
                               state |-> IF copied = "all" /\ items[mt.path].state = "intact"
                                         THEN "complete" ELSE "partial"])
         /\ mt' = IF copied = "all"
                  THEN [mt EXCEPT !.pc = "remove"]
                  ELSE [mt EXCEPT !.pc = "ret", !.err = "failed to copy"]
    /\ UNCHANGED <<scannerVars, beside, now, items, cl>>

(* what removing the source can do: os.Remove takes the file or fails;      *)
(* os.RemoveAll removes everything it can and returns the first error       *)
RemoveOutcomes(kind) ==
    IF kind = "dir" THEN {"removed", "untouched", "partly"} ELSE {"removed", "untouched"}

(* os.Remove(src) / os.RemoveAll(src) after the copy *)
RemoveSource ==
    /\ mt.pc = "remove"
    /\ \E out \in RemoveOutcomes(items[mt.path].kind) :
         /\ items' = [items EXCEPT ![mt.path].state =
                          CASE out = "removed"   -> "gone"
                            [] out = "untouched" -> @
                            [] out = "partly"    -> "partial"]
         /\ mt' = [mt EXCEPT !.pc = "ret",
                             !.err = IF out = "removed" THEN NoErr ELSE "remove"]
    /\ UNCHANGED <<scannerVars, beside, now, trash, cl>>

(* files[i].Modified.After / Before files[j].Modified *)
lessModifiedReversed(keepNewest, fi, fj) ==
    IF keepNewest THEN fi.Modified < fj.Modified ELSE fi.Modified > fj.Modified

lessModified(keepNewest, fi, fj) ==
    IF keepNewest THEN fi.Modified > fj.Modified ELSE fi.Modified < fj.Modified

(* sort.Slice(files, less) on fewer than 12 elements: insertion sort *)
RECURSIVE insertFile(_, _, _)
insertFile(keepNewest, sorted, f) ==
    IF sorted = <<>> THEN <<f>>
    ELSE LET last == sorted[Len(sorted)]
         IN  IF lessModified(keepNewest, f, last)
             THEN Append(insertFile(keepNewest, SubSeq(sorted, 1, Len(sorted) - 1), f), last)
             ELSE Append(sorted, f)

RECURSIVE sortFiles(_, _)
sortFiles(keepNewest, files) ==
    IF files = <<>> THEN <<>>
    ELSE insertFile(keepNewest, sortFiles(keepNewest, SubSeq(files, 1, Len(files) - 1)),
                    files[Len(files)])

(* the files CleanDuplicateFiles hands to MoveToTrash, in order: of every   *)
(* group of more than one file, all but the first after sorting             *)
RECURSIVE removalList(_, _)
removalList(groups, keepNewest) ==
    IF groups = <<>> THEN <<>>
    ELSE LET files == Head(groups).Files
         IN  (IF Len(files) <= 1 THEN <<>> ELSE Tail(sortFiles(keepNewest, files)))
             \o removalList(Tail(groups), keepNewest)

StartClean(op, keepNewest, groups, todo) ==
    /\ cl.op = "none"
    /\ cl' = [NoClean EXCEPT !.op = op, !.pc = "loop", !.keepNewest = keepNewest,
                             !.groups = groups, !.todo = todo]
    /\ UNCHANGED <<scannerVars, beside, now, items, trash, mt>>

(* the FileInfo the full-hash worker appends for p *)
FileInfoOf(p) == [Path |-> p, Size |-> osStat(p).size, Modified |-> osStat(p).mtime]

FullHashes == {calculateFullHash(p).hash : p \in DOMAIN fs}
SameHash(h) == {FileInfoOf(p) : p \in {q \in DOMAIN fs : calculateFullHash(q).hash = h}}

(* the fullHashMap values a scan of the tree can end with: under every      *)
(* digest its files, in any order the workers may have appended them        *)
FullHashMaps ==
    {fm \in [FullHashes -> UNION {Perms(SameHash(h)) : h \in FullHashes}] :
        \A h \in FullHashes : fm[h] \in Perms(SameHash(h))}

(* the group lists Scan can return for the tree *)
ScanResults ==
    {sortSlice(buildGroups(keyOrder, fm)) : keyOrder \in Perms(FullHashes), fm \in FullHashMaps}

(* startClean: CleanDuplicateFiles(selected, m.keepNewest, nil) on the      *)
(* groups a scan returned                                                   *)
CleanDuplicateFiles ==
    /\ cl.op = "none"
    /\ \E groups \in ScanResults, keepNewest \in BOOLEAN :
          StartClean("CleanDuplicateFiles", keepNewest, groups,
                     removalList(groups, keepNewest))

(* the targets or files a caller selected, in list order *)
Selection(sel) ==
    LET ps == SelectSeq(WalkOrder, LAMBDA p : p \in sel)
    IN  [i \in 1..Len(ps) |-> [Path |-> ps[i], Size |-> TargetSize, Modified |-> 0]]

(* CleanScanTargets(selected, nil): targets are files and directories *)
CleanScanTargets ==
    /\ cl.op = "none"
    /\ \E sel \in SUBSET DOMAIN items :
          StartClean("CleanScanTargets", FALSE, <<>>, Selection(sel))

(* CleanFiles(selected, nil): the selected large files *)
CleanFiles ==
    /\ cl.op = "none"
    /\ \E sel \in SUBSET {p \in DOMAIN items : items[p].kind = "file"} :
          StartClean("CleanFiles", FALSE, <<>>, Selection(sel))

(* the loop body up to the call of MoveToTrash *)
CleanCall ==
    /\ cl.pc = "loop"
    /\ cl.todo # <<>>
    /\ mt.pc = "idle"
    /\ mt' = [NoMove EXCEPT !.pc = "finder", !.path = Head(cl.todo).Path,
                            !.was = items[Head(cl.todo).Path].state]
    /\ UNCHANGED <<scannerVars, beside, now, items, trash, cl>>

(* variant: a failed move ends the loop *)
afterFailureAbort(todo) == <<>>

(* what is left to do after a failed move: continue with the next one *)
afterFailure(todo) == Tail(todo)

(* the loop body after MoveToTrash returned *)
CleanAfterMove ==
    /\ cl.pc = "loop"
    /\ mt.pc = "ret"
    /\ LET f == Head(cl.todo)
           seen == Append(cl.outcome, [file |-> f, err |-> mt.err])
       IN  cl' = IF mt.err # NoErr
                 THEN [cl EXCEPT !.todo = afterFailure(cl.todo),
                                 !.outcome = seen,
                                 !.failed = IF cl.op = "CleanDuplicateFiles" THEN @
                                            ELSE Append(@, f.Path)]
                 ELSE [cl EXCEPT !.todo = Tail(cl.todo),
                                 !.outcome = seen,
                                 !.totalSize = @ + f.Size]
    /\ mt' = NoMove
    /\ UNCHANGED <<scannerVars, beside, now, items, trash>>

(* the return statement of the Clean* operation *)
CleanReturn ==
    /\ cl.pc = "loop"
    /\ cl.todo = <<>>
    /\ mt.pc = "idle"
    /\ cl' = [cl EXCEPT !.pc = "done",
                        !.ret = [size |-> cl.totalSize,
                                 err |-> IF Len(cl.failed) > 0 THEN "failed" ELSE NoErr]]
    /\ UNCHANGED <<scannerVars, beside, now, items, trash, mt>>

(* a second passes *)
Tick ==
    /\ now < MaxNow
    /\ now' = now + 1
    /\ UNCHANGED <<scannerVars, beside, cleanerVars>>

Cleaning == MoveToTrash \/ directMoveToTrash \/ CopyToTrash \/ RemoveSource
            \/ CleanCall \/ CleanAfterMove \/ CleanReturn

NextClean == CleanDuplicateFiles \/ Cleaning

NextTrash == CleanScanTargets \/ CleanFiles \/ Cleaning \/ Tick

(* duplicate files of differing and of equal modification times *)
InitClean ==
    /\ root = "ok"
    /\ \E shape \in {<<1, 1, 1>>, <<1, 1, 2, 2>>} :
       \E m \in [1..Len(shape) -> MTimes] :
          fs = [p \in {WalkOrder[i] : i \in 1..Len(shape)} |->
                  LET i == CHOOSE j \in 1..Len(shape) : WalkOrder[j] = p
                  IN  RegularFile(p, <<shape[i]>>, "none", m[i])]
    /\ progressCh = "nil"
    /\ InitScanner

(* files and directories handed to the cleaner by a junk or large-file view *)
InitTrash ==
    /\ root = "ok"
    /\ fs = [p \in {} |-> RegularFile(p, <<>>, "none", 0)]
    /\ progressCh = "nil"
    /\ minSize = defaultMinSize
    /\ items \in [TrashPaths -> [kind : {"file", "dir"}, state : {"intact"}]]
    /\ InitRun

SpecClean == InitClean /\ [][NextClean]_vars

SpecTrash == InitTrash /\ [][NextTrash]_vars

(* the Trash holds an item of the base name of a and b, put there before    *)
(* the cleaner was started                                                  *)
InitCollide ==
    /\ root = "ok"
    /\ fs = [p \in {} |-> RegularFile(p, <<>>, "none", 0)]
    /\ progressCh = "nil"
    /\ minSize = defaultMinSize
    /\ items \in [TrashPaths -> [kind : {"file", "dir"}, state : {"intact"}]]
    /\ now = 0
    /\ trash = [k \in {<<BaseName("a"), NoStamp>>} |->
                  [item |-> "earlier", state |-> "complete"]]
    /\ mt = NoMove
    /\ cl = NoClean
    /\ InitHistory
    /\ cancelAt = "none"
    /\ pc = "idle"
    /\ progQ = <<>>
    /\ result = NoResult
    /\ errored = {}
    /\ dropped = {}
    /\ scans = 0
    /\ prevOrder = NoOrder
    /\ InitLocals

SpecCollide == InitCollide /\ [][NextTrash]_vars

(* ------------------------------- history -------------------------------- *)
notHistory == <<scannerVars, cleanerVars, cancelAt>>

(* json.Marshal of a DiskSnapshot: the keys of the struct tags; details is  *)
(* left out when empty (omitempty)                                          *)
marshalSnapshot(s) ==
    LET o == [timestamp |-> s.Timestamp, total_bytes |-> s.TotalBytes,
              used_bytes |-> s.UsedBytes, free_bytes |-> s.FreeBytes,
              cleaned_size |-> s.CleanedSize, trigger |-> s.Trigger]
    IN  IF s.Details = "" THEN o
        ELSE [k \in DOMAIN o \cup {"details"} |-> IF k = "details" THEN s.Details ELSE o[k]]

(* json.Unmarshal into a DiskSnapshot: a key that is absent leaves the zero value *)
unmarshalSnapshot(o) ==
    [Timestamp |-> o.timestamp, TotalBytes |-> o.total_bytes, UsedBytes |-> o.used_bytes,
     FreeBytes |-> o.free_bytes, CleanedSize |-> o.cleaned_size, Trigger |-> o.trigger,
     Details |-> IF "details" \in DOMAIN o THEN o.details ELSE ""]

marshal(snapshots) == [i \in 1..Len(snapshots) |-> marshalSnapshot(snapshots[i])]
unmarshal(data) == [i \in 1..Len(data) |-> unmarshalSnapshot(data[i])]

(* variant: the snapshots are returned in file order *)
sortSnapshotsNone(snapshots) == snapshots

(* sort.Slice(snapshots, Timestamp.Before) on a short slice: insertion sort *)
RECURSIVE insertSnapshot(_, _)
insertSnapshot(sorted, s) ==
    IF sorted = <<>> THEN <<s>>
    ELSE LET last == sorted[Len(sorted)]
         IN  IF s.Timestamp < last.Timestamp
             THEN Append(insertSnapshot(SubSeq(sorted, 1, Len(sorted) - 1), s), last)
             ELSE Append(sorted, s)

RECURSIVE sortSnapshots(_)
sortSnapshots(snapshots) ==
    IF snapshots = <<>> THEN <<>>
    ELSE insertSnapshot(sortSnapshots(SubSeq(snapshots, 1, Len(snapshots) - 1)),
                        snapshots[Len(snapshots)])

(* LoadSnapshots: a missing file is an empty history; a read error or       *)
(* content that does not parse is an error                                  *)
LoadSnapshotsResult(readOk) ==
    IF histFile.state = "absent" THEN [snaps |-> <<>>, err |-> NoErr]
    ELSE IF ~readOk THEN [snaps |-> <<>>, err |-> "read"]
    ELSE IF histFile.state = "corrupt" THEN [snaps |-> <<>>, err |-> "unmarshal"]
    ELSE [snaps |-> sortSnapshots(unmarshal(histFile.data)), err |-> NoErr]

(* pruneOldSnapshots at time t: keeps, in order, Timestamp.After(cutoff) *)
pruneOldSnapshots(snapshots, t) ==
    SelectSeq(snapshots, LAMBDA s : s.Timestamp > t - maxHistoryDays * Day)

(* RecordSnapshot up to the call of saveSnapshots: the snapshot is built,   *)
(* the history loaded (an error gives an empty one), the snapshot appended  *)
(* and the list pruned                                                      *)
RecordSnapshot(c) ==
    /\ hcall[c].pc \in {"idle", "done"}
    /\ records < MaxRecords
    /\ records' = records + 1
    /\ \E args \in RecordArgs, readOk \in BOOLEAN :
         LET snapshot == [Timestamp |-> now, TotalBytes |-> args.total,
                          UsedBytes |-> args.used, FreeBytes |-> args.total - args.used,
                          CleanedSize |-> args.cleanedSize, Trigger |-> args.trigger,
                          Details |-> args.details]
             loadedNow == LoadSnapshotsResult(readOk)
             snapshots == IF loadedNow.err # NoErr THEN <<>> ELSE loadedNow.snaps
         IN  hcall' = [hcall EXCEPT ![c] =
                 [pc |-> "save", at |-> now, args |-> args, prior |-> histFile,
                  snapshots |-> pruneOldSnapshots(Append(snapshots, snapshot), now),
                  err |-> NoErr]]
    /\ UNCHANGED <<notHistory, daily, now, histFile, loaded, elapsed>>

(* saveSnapshots: os.WriteFile replaces the content, or fails and leaves    *)
(* the file as it was or cut short                                          *)
saveSnapshots(c) ==
    /\ hcall[c].pc = "save"
    /\ \E written \in {"all", "none", "part"} :
         /\ histFile' = CASE written = "all"  -> JsonFile(marshal(hcall[c].snapshots))
                          [] written = "none" -> histFile
                          [] written = "part" -> CorruptFile
         /\ hcall' = [hcall EXCEPT ![c].pc = "done",
                                   ![c].err = IF written = "all" THEN NoErr ELSE "write"]
    /\ daily' = NoDaily
    /\ UNCHANGED <<notHistory, now, loaded, records, elapsed>>

(* LoadSnapshots called by a view *)
LoadSnapshots ==
    /\ \E readOk \in BOOLEAN :
         LET r == LoadSnapshotsResult(readOk)
         IN  loaded' = [snaps |-> r.snaps, err |-> r.err, file |-> histFile,
                        after |-> IF \A c \in HistCallers : hcall[c].pc \in {"idle", "done"}
                                  THEN records ELSE 0 - 1]
    /\ loaded'  # loaded
    /\ UNCHANGED <<notHistory, daily, now, histFile, hcall, records, elapsed>>

(* time passes between calls, or the wall clock is set back *)
Elapse ==
    /\ elapsed < MaxElapse
    /\ elapsed' = elapsed + 1
    /\ \E d \in ClockSteps : now + d >= 0 /\ now' = now + d
    /\ daily' = NoDaily
    /\ UNCHANGED <<notHistory, histFile, hcall, loaded, records>>

(* GetRecentSnapshots(days) at time t, on what LoadSnapshots returned *)
GetRecentSnapshots(snapshots, days, t) ==
    SelectSeq(snapshots, LAMBDA s : s.Timestamp > t - days * Day)

(* s.Timestamp.Format("2006-01-02"): the number of the calendar day *)
dateKey(s) == s.Timestamp \div Day

(* variant: an earlier snapshot replaces the one held for its day *)
replacesEarlier(s, existing) == s.Timestamp < existing.Timestamp

(* s.Timestamp.After(existing.Timestamp) *)
replaces(s, existing) == s.Timestamp > existing.Timestamp

(* the loop filling dailyMap: date key -> snapshot *)
RECURSIVE fillDailyMap(_, _)
fillDailyMap(snapshots, dailyMap) ==
    IF snapshots = <<>> THEN dailyMap
    ELSE LET s == Head(snapshots)
             k == dateKey(s)
         IN  fillDailyMap(Tail(snapshots),
                 IF k \notin DOMAIN dailyMap \/ replaces(s, dailyMap[k])
                 THEN [x \in DOMAIN dailyMap \cup {k} |-> IF x = k THEN s ELSE dailyMap[x]]
                 ELSE dailyMap)

(* GetDailySnapshots(days) called by a view: the recent snapshots, one per  *)
(* date key, collected by ranging over dailyMap in any order and sorted     *)
GetDailySnapshots ==
    /\ \A c \in HistCallers : hcall[c].pc \in {"idle", "done"}
    /\ \E days \in DayWindows, readOk \in BOOLEAN :
         LET r == LoadSnapshotsResult(readOk)
             dailyMap == fillDailyMap(GetRecentSnapshots(r.snaps, days, now),
                                      [k \in {} |-> NoSnapshot])
         IN  \E keyOrder \in Perms(DOMAIN dailyMap) :
                daily' = [snaps |-> IF r.err # NoErr THEN <<>>
                                    ELSE sortSnapshots([i \in 1..Len(keyOrder) |->
                                                           dailyMap[keyOrder[i]]]),
                          err |-> r.err, file |-> histFile, days |-> days, at |-> now]
    /\ daily' # daily
    /\ UNCHANGED <<notHistory, now, histFile, hcall, loaded, records, elapsed>>

Recording == RecordSnapshot(1) \/ saveSnapshots(1)

NextDaily == Recording \/ GetDailySnapshots \/ Elapse

NextHistory == Recording \/ LoadSnapshots \/ Elapse

InitHistoryOnly ==
    /\ root = "ok"
    /\ fs = [p \in {} |-> RegularFile(p, <<>>, "none", 0)]
    /\ progressCh = "nil"
    /\ InitScanner

SpecHistory == InitHistoryOnly /\ [][NextHistory]_vars

SpecDaily == InitHistoryOnly /\ [][NextDaily]_vars

(* RecordSnapshot issued by two background commands of the UI, each running *)
(* in a goroutine of its own                                                *)
RecordingBoth == \E c \in HistCallers : RecordSnapshot(c) \/ saveSnapshots(c)

NextConcurrent == RecordingBoth \/ Elapse

SpecConcurrent == InitHistoryOnly /\ [][NextConcurrent]_vars

(* ------------------------------ properties ------------------------------ *)
Returned == pc = "done"
Groups == result.groups
GroupPaths(g) == {g.Files[j].Path : j \in 1..Len(g.Files)}
GroupedPaths == UNION {GroupPaths(Groups[i]) : i \in 1..Len(Groups)}
Occurrences(p) ==
    Cardinality({ij \in (1..Len(Groups)) \X (1..Cardinality(DOMAIN fs)) :
                    /\ ij[2] <= Len(Groups[ij[1]].Files)
                    /\ Groups[ij[1]].Files[ij[2]].Path = p})
Readable(p) == fs[p].fault = "none"
(* two distinct readable files of the same content, both above the minimum size *)
IdenticalPair(a, b) ==
    /\ a # b
    /\ fs[a].content = fs[b].content
    /\ FileSize(a) > minSize /\ FileSize(b) > minSize
    /\ Readable(a) /\ Readable(b)
TogetherOnce(a, b) ==
    /\ Cardinality({i \in 1..Len(Groups) : {a, b} \subseteq GroupPaths(Groups[i])}) = 1
    /\ Occurrences(a) = 1
    /\ Occurrences(b) = 1

(* C1: any two files of a returned group have the same full content *)
NoFalsePositives ==
    Returned =>
        \A i \in 1..Len(Groups) : \A a, b \in GroupPaths(Groups[i]) :
            fs[a].content = fs[b].content

(* a group was returned while a file of the same size and quick fingerprint *)
(* as its members, but of another content, was kept out of it               *)
NoFalsePositivesWitness ==
    /\ Returned
    /\ \E i \in 1..Len(Groups) : \E a \in GroupPaths(Groups[i]) :
          \E p \in DOMAIN fs \ GroupPaths(Groups[i]) :
              /\ Readable(p)
              /\ FileSize(p) = FileSize(a)
              /\ calculateQuickHash(p).hash = calculateQuickHash(a).hash
              /\ fs[p].content # fs[a].content

(* C2: two readable files of identical content above the minimum size are   *)
(* together in exactly one returned group, each listed exactly once         *)
NoFalseNegatives ==
    Returned /\ root = "ok" =>
        \A a, b \in DOMAIN fs : IdenticalPair(a, b) => TogetherOnce(a, b)

NoFalseNegativesWitness ==
    /\ Returned
    /\ \E a, b \in DOMAIN fs : IdenticalPair(a, b) /\ TogetherOnce(a, b)
    /\ \E c \in DOMAIN fs : ~Readable(c)

(* C3: every member of a returned group has the group's Size *)
SizeInvariant ==
    Returned =>
        \A i \in 1..Len(Groups) : \A j \in 1..Len(Groups[i].Files) :
            Groups[i].Files[j].Size = Groups[i].Size

SizeInvariantWitness ==
    /\ Returned
    /\ \E i \in 1..Len(Groups) :
          /\ Len(Groups[i].Files) = 3
          /\ Groups[i].Size = 3 * chunkSize
          /\ \A j \in 1..3 : Groups[i].Files[j].Size = 3 * chunkSize

(* C4: no returned group has fewer than 2 files, and a full digest seen for *)
(* one file only makes no group                                             *)
MinimumMembership ==
    Returned =>
        /\ \A i \in 1..Len(Groups) : Len(Groups[i].Files) >= 2
        /\ \A h \in DOMAIN fullHashMap :
              Len(fullHashMap[h]) = 1 =>
                  \A i \in 1..Len(Groups) : Groups[i].Hash # h

MinimumMembershipWitness ==
    /\ Returned
    /\ \E h \in DOMAIN fullHashMap : Len(fullHashMap[h]) = 1
    /\ \E h \in DOMAIN fullHashMap : Len(fullHashMap[h]) >= 2

(* C5: the returned groups are in descending order of reclaimable bytes *)
ReclaimableOrdering ==
    Returned =>
        \A i \in 1..(Len(Groups) - 1) : waste(Groups[i]) >= waste(Groups[i + 1])

ReclaimableOrderingWitness ==
    /\ Returned
    /\ Len(Groups) = 2
    /\ waste(Groups[1]) > waste(Groups[2])

(* C6: a second scan of the unchanged tree returns the groups in the same   *)
(* order as the first                                                       *)
OutputDeterminism ==
    Returned /\ prevOrder # NoOrder =>
        [i \in 1..Len(Groups) |-> Groups[i].Hash] = prevOrder

(* C7: a root that cannot be read makes Scan return a non-nil error *)
FatalRootError ==
    Returned /\ root # "ok" => result.err # NoErr

(* C8: Scan returns a nil error, no file that met an I/O error is in any    *)
(* group, and the identical readable files are still grouped                *)
SoftFailureResilience ==
    Returned =>
        /\ result.err = NoErr
        /\ \A p \in errored : p \notin GroupedPaths
        /\ \A a, b \in DOMAIN fs : IdenticalPair(a, b) => TogetherOnce(a, b)

(* what a returned value tells the caller about paths: the members of the   *)
(* groups; the error result carries no path                                 *)
PathsInResult == GroupedPaths

(* C9: every file dropped on a per-file error is named in what Scan returns *)
SoftErrorsSurfaced ==
    Returned => \A p \in dropped : p \in PathsInResult

(* C10: no goroutine of Scan waits at a progress send *)
ProgressNeverBlocks ==
    \A t \in {0} \cup Workers :
        (IF t = 0 THEN pc \in {"send1", "send2", "send3"} ELSE wpc[t] = "send")
            => Len(progQ) < ProgressCap

(* -------------------------- links (C11, C12) ---------------------------- *)
IsSymlink(p) == fs[p].target # NoPath

(* paths a worker opened and hashed *)
BeingHashed == {wjob[w].Path : w \in Workers} \ {NoPath}

(* C11: a symbolic link under the root is never a candidate, is never       *)
(* opened and hashed, and is in no returned group                           *)
SymlinksNeverFollowed ==
    \A p \in DOMAIN fs :
        IsSymlink(p) =>
            /\ \A i \in 1..Len(candidatePaths) : candidatePaths[i].path # p
            /\ p \notin BeingHashed
            /\ Returned => p \notin GroupedPaths

(* the inodes behind the members of a group *)
GroupInodes(g) == {fs[Resolve(p)].inode : p \in GroupPaths(g)}

(* the bytes that removing all but one member of every group frees: one     *)
(* Size for every inode of a group beyond the first                         *)
RECURSIVE FreedBytes(_)
FreedBytes(groups) ==
    IF groups = <<>> THEN 0
    ELSE (Cardinality(GroupInodes(Head(groups))) - 1) * Head(groups).Size
         + FreedBytes(Tail(groups))

(* C12: the reclaimable bytes reported for the returned groups count no     *)
(* space for a path that shares its inode with another member               *)
HardLinksNotDoubleCounted ==
    Returned => GetDuplicateTotalSize(Groups) <= FreedBytes(Groups)

(* ------------------------- cleanup (C13 .. C17) ------------------------- *)
CleanedDuplicates == cl.op = "CleanDuplicateFiles" /\ cl.pc = "done"

(* the paths MoveToTrash was called on, and those for which it returned nil *)
Requested == {cl.outcome[i].file.Path : i \in 1..Len(cl.outcome)}
Succeeded == {i \in 1..Len(cl.outcome) : cl.outcome[i].err = NoErr}
Failed == {i \in 1..Len(cl.outcome) : cl.outcome[i].err # NoErr}

Kept(g) == GroupPaths(g) \ Requested
MemberTimes(g) == {g.Files[j].Modified : j \in 1..Len(g.Files)}
ExtremeTime(g, keepNewest) ==
    CHOOSE t \in MemberTimes(g) :
        \A u \in MemberTimes(g) : IF keepNewest THEN u <= t ELSE u >= t

(* C13: of every group of at least two files, removal is requested for all  *)
(* members but exactly one, and the one left has the greatest modification  *)
(* time when keepNewest is set and the smallest otherwise                   *)
RetentionKeepsOne ==
    CleanedDuplicates =>
        \A i \in 1..Len(cl.groups) :
            LET g == cl.groups[i]
            IN  Len(g.Files) >= 2 =>
                  /\ Cardinality(Kept(g)) = 1
                  /\ \A j \in 1..Len(g.Files) :
                        g.Files[j].Path \in Kept(g) =>
                            g.Files[j].Modified = ExtremeTime(g, cl.keepNewest)

(* a group of three files of two modification times was cleaned, either way *)
RetentionKeepsOneWitness ==
    /\ CleanedDuplicates
    /\ \E i \in 1..Len(cl.groups) :
          /\ Len(cl.groups[i].Files) = 3
          /\ Cardinality(MemberTimes(cl.groups[i])) = 2
          /\ Cardinality(GroupPaths(cl.groups[i]) \cap Requested) = 2

(* the member sort.Slice leaves first, which the removal loop skips *)
Retained(keepNewest, files) == sortFiles(keepNewest, files)[1].Path
FileInfosOf(g) == {g.Files[j] : j \in 1..Len(g.Files)}

(* C14: the member retained from a group is the same whatever the order in  *)
(* which the workers appended the members, ties of modification time        *)
(* included                                                                 *)
RetentionDeterminism ==
    cl.op = "CleanDuplicateFiles" =>
        \A i \in 1..Len(cl.groups) :
            \A order \in Perms(FileInfosOf(cl.groups[i])) :
                Retained(cl.keepNewest, order) = Retained(cl.keepNewest, cl.groups[i].Files)

(* C15: a MoveToTrash call on an item that is in place returns an error     *)
(* only with the item still in place, returns nil only with the item whole  *)
(* in the Trash, and at no moment has touched the source without a whole    *)
(* copy of it being in the Trash                                            *)
MoveNeverRemove ==
    /\ (mt.pc = "ret" /\ mt.was = "intact" /\ mt.err # NoErr)
          => items[mt.path].state = "intact"
    /\ (mt.pc = "ret" /\ mt.was = "intact" /\ mt.err = NoErr) => InTrash(mt.path)
    /\ (mt.pc # "idle" /\ items[mt.path].state # mt.was) => InTrash(mt.path)

RECURSIVE SumSize(_, _)
SumSize(outcome, S) ==
    IF S = {} THEN 0
    ELSE LET i == CHOOSE j \in S : TRUE
         IN  outcome[i].file.Size + SumSize(outcome, S \ {i})

(* C16: a failed move stops nothing: removal is requested for every member  *)
(* but one of every group of at least two files, and the byte total         *)
(* returned is the sum of Size over the moves that returned nil             *)
PartialFailureContinues ==
    CleanedDuplicates =>
        /\ \A i \in 1..Len(cl.groups) :
              Len(cl.groups[i].Files) >= 2 =>
                  Cardinality(GroupPaths(cl.groups[i]) \cap Requested)
                      = Len(cl.groups[i].Files) - 1
        /\ Len(cl.outcome) = Cardinality(Requested)
        /\ cl.ret.size = SumSize(cl.outcome, Succeeded)

(* a move failed, and a later one, in the same group or in a later group,   *)
(* succeeded and was counted                                                *)
PartialFailureContinuesWitness ==
    /\ CleanedDuplicates
    /\ \E i \in Failed : \E j \in Succeeded : i < j
    /\ cl.ret.size > 0

(* C17: when a move failed, what CleanDuplicateFiles returns says so *)
CleanupReportsFailures ==
    (CleanedDuplicates /\ Failed # {}) => cl.ret.err # NoErr

(* --------------------------- cancellation (C18) ------------------------- *)
StageNo(at) ==
    CASE at \in {"idle", "none"} -> 0
      [] at \in {"send1", "walk"} -> 1
      [] at \in {"send2", "spawn2", "produce2", "wait2"} -> 2
      [] at \in {"send3", "spawn3", "produce3", "wait3"} -> 3
      [] at = "done" -> 4

(* C18: a scan cancelled before its last stage starts no further stage and  *)
(* reports no groups                                                        *)
CancelStopsScan ==
    (cancelAt # "none" /\ StageNo(cancelAt) < 3) =>
        \/ StageNo(pc) = StageNo(cancelAt)
        \/ pc = "done" /\ Groups = <<>>

(* --------------------------- history (C19, C20) ------------------------- *)
Count(seq, x) == Cardinality({i \in 1..Len(seq) : seq[i] = x})
SameSnapshots(a, b) ==
    /\ Len(a) = Len(b)
    /\ \A x \in Range(a) \cup Range(b) : Count(a, x) = Count(b, x)

(* LoadSnapshots returned after the first RecordSnapshot returned nil *)
LoadedAfterFirstRecord ==
    /\ records = 1
    /\ hcall[1].pc = "done"
    /\ hcall[1].err = NoErr
    /\ loaded.after = 1
    /\ loaded.err = NoErr

(* C19: with no history file at the start, LoadSnapshots after one          *)
(* RecordSnapshot returns exactly one snapshot, carrying the recorded       *)
(* total, used, cleaned size and trigger; whenever LoadSnapshots succeeds   *)
(* it returns the stored snapshots in ascending order of timestamp          *)
HistoryRoundTrip ==
    /\ LoadedAfterFirstRecord =>
          /\ Len(loaded.snaps) = 1
          /\ loaded.snaps[1].TotalBytes = hcall[1].args.total
          /\ loaded.snaps[1].UsedBytes = hcall[1].args.used
          /\ loaded.snaps[1].CleanedSize = hcall[1].args.cleanedSize
          /\ loaded.snaps[1].Trigger = hcall[1].args.trigger
    /\ loaded.err = NoErr =>
          /\ SameSnapshots(loaded.snaps, unmarshal(loaded.file.data))
          /\ \A i \in 1..Len(loaded.snaps) : \A j \in 1..Len(loaded.snaps) :
                i < j => loaded.snaps[i].Timestamp <= loaded.snaps[j].Timestamp

(* the round trip was made with a snapshot that carries details *)
HistoryRoundTripWitness ==
    /\ LoadedAfterFirstRecord
    /\ Len(loaded.snaps) = 1
    /\ loaded.snaps[1].Details # ""

Stored == unmarshal(histFile.data)

(* C20: when a RecordSnapshot call has returned nil, the stored history     *)
(* holds no snapshot older than 90 days and holds every snapshot that was   *)
(* stored before the call and is younger than 90 days                       *)
HistoryPruning ==
    \A c \in HistCallers :
        (hcall[c].pc = "done" /\ hcall[c].err = NoErr) =>
            /\ \A s \in Range(Stored) :
                  ~(s.Timestamp < hcall[c].at - maxHistoryDays * Day)
            /\ \A s \in Range(unmarshal(hcall[c].prior.data)) :
                  s.Timestamp > hcall[c].at - maxHistoryDays * Day
                      => s \in Range(Stored)

(* ------------------------ daily snapshots (C21) ------------------------- *)
(* the stored snapshots of the last daily.days days, as of the call *)
RecentStored ==
    {s \in Range(unmarshal(daily.file.data)) :
        s.Timestamp > daily.at - daily.days * Day}

(* C21: GetDailySnapshots returns, of the stored snapshots of the last      *)
(* `days` days, one for every calendar day that has any, that one having    *)
(* the latest timestamp of its day, in ascending order of timestamp         *)
DailySnapshots ==
    daily.err = NoErr =>
        /\ \A i \in 1..Len(daily.snaps) : \A j \in 1..Len(daily.snaps) :
              i < j => /\ dateKey(daily.snaps[i]) # dateKey(daily.snaps[j])
                       /\ daily.snaps[i].Timestamp <= daily.snaps[j].Timestamp
        /\ \A i \in 1..Len(daily.snaps) :
              /\ daily.snaps[i] \in RecentStored
              /\ \A s \in RecentStored :
                    dateKey(s) = dateKey(daily.snaps[i])
                        => s.Timestamp <= daily.snaps[i].Timestamp
        /\ \A s \in RecentStored :
              \E i \in 1..Len(daily.snaps) : dateKey(daily.snaps[i]) = dateKey(s)

(* two snapshots of one day and of different times were stored, out of      *)
(* order, and one was returned                                              *)
DailySnapshotsWitness ==
    /\ daily.err = NoErr
    /\ Len(daily.snaps) = 1
    /\ Len(daily.file.data) = 2
    /\ daily.file.data[1].timestamp > daily.file.data[2].timestamp
    /\ Cardinality(RecentStored) = 2

(* --------------------------- stage funnel (C22) ------------------------- *)
(* a worker takes a job of the quick stage / of the full stage and hashes *)
QuickHashStep == pc \in {"produce2", "wait2"} /\ jobs # <<>> /\ jobs' = Tail(jobs)
FullHashStep == pc \in {"produce3", "wait3"} /\ jobs2 # <<>> /\ jobs2' = Tail(jobs2)

(* the quick fingerprint of p was computed with every read succeeding *)
SuccessfullyQuickHashed(p) ==
    /\ \E i \in 1..Len(candidatePaths) : candidatePaths[i].path = p
    /\ calculateQuickHash(p).err = NoErr
    /\ ~calculateQuickHash(p).ioerr

(* the key of p in quickHashMap: size seen by the walk, quick digest *)
QuickKey(p) == <<LstatSize(p), calculateQuickHash(p).hash>>

(* the stages run in the order walk and classify, quick, full, group *)
StagesInOrder ==
    /\ pc' # "idle" => StageNo(pc') >= StageNo(pc)
    /\ (pc \in {"wait2", "wait3"} /\ pc' # pc) => \A w \in Workers : wpc[w] = "done"
    /\ FullHashStep => jobs = <<>> /\ jobsClosed /\ pc' \in {"produce3", "wait3"}
    /\ QuickHashStep => fullHashMap = EmptyMap /\ jobs2 = <<>>

(* C22: a file is quick-hashed only if its size bucket holds at least two   *)
(* files, full-hashed only if its (size, quick digest) key is shared by at  *)
(* least two successfully quick-hashed files; the stages run in order and   *)
(* no full hash starts before the quick workers have finished               *)
StageFunnel ==
    [][/\ QuickHashStep =>
             /\ Head(jobs).size \in DOMAIN sizeMap
             /\ Len(sizeMap[Head(jobs).size]) >= 2
             /\ Head(jobs).path \in Range(sizeMap[Head(jobs).size])
       /\ FullHashStep =>
             Cardinality({q \in DOMAIN fs :
                            /\ SuccessfullyQuickHashed(q)
                            /\ QuickKey(q) = QuickKey(Head(jobs2))}) >= 2
       /\ StagesInOrder]_vars

(* ----------------------- bounded concurrency (C23) ---------------------- *)
(* the worker goroutines of the running stage that have not returned *)
LiveWorkers == {w \in DOMAIN wpc : wpc[w] \notin {"off", "done"}}

(* C23: at most numWorkers files are being hashed at a time, numWorkers     *)
(* being the CPU count clamped to 2..8; a job channel never holds more      *)
(* than 256 pending entries, the producer sending nothing while it is full  *)
BoundedConcurrency ==
    /\ [](/\ Cardinality(LiveWorkers) <= Max(2, Min(8, NumCPU))
          /\ Len(jobs) <= 256
          /\ Len(jobs2) <= 256)
    /\ [][/\ Len(jobs) = 256 => sent' = sent
          /\ Len(jobs2) = 256 => sent' = sent]_vars

(* the producer has more to send while the channel is full and the workers  *)
(* are all waiting for a job                                                *)
BoundedConcurrencyWitness ==
    /\ pc = "produce2"
    /\ Len(jobs) = 256
    /\ sent < Len(candidatePaths)
    /\ Cardinality(LiveWorkers) = 2

(* --------------------------- shared maps (C24) -------------------------- *)
(* the workers between mu.Lock() and mu.Unlock() *)
InCritical == {w \in DOMAIN wpc : wpc[w] \in {"crit", "send"}}

(* wg.Wait() / wg2.Wait() is about to return *)
QuickStageOver == pc = "wait2" /\ \A w \in DOMAIN wpc : wpc[w] = "done"
FullStageOver == pc = "wait3" /\ \A w \in DOMAIN wpc : wpc[w] = "done"

(* the keys under which path p stands in a map of paths / of FileInfo *)
QuickEntries(p) ==
    {<<k, i>> \in (DOMAIN quickHashMap) \X (1..Cardinality(DOMAIN fs)) :
        i <= Len(quickHashMap[k]) /\ quickHashMap[k][i] = p}
FullEntries(p) ==
    {<<k, i>> \in (DOMAIN fullHashMap) \X (1..Cardinality(DOMAIN fs)) :
        i <= Len(fullHashMap[k]) /\ fullHashMap[k][i].Path = p}

(* C24: no two workers are inside an update of quickHashMap, processed or   *)
(* fullHashMap at once, and no update is lost: when the workers of a stage  *)
(* have finished, every file given to the stage whose hash (and stat)       *)
(* succeeded stands exactly once in the stage's map, under its own digest   *)
(* key, and no other file stands in it                                      *)
SharedMapsConsistent ==
    /\ Cardinality(InCritical) <= 1
    /\ InCritical = {w \in DOMAIN wpc : mu = w}
    /\ QuickStageOver =>
          /\ \A i \in 1..Len(candidatePaths) :
                LET c == candidatePaths[i]
                    h == calculateQuickHash(c.path)
                IN  QuickEntries(c.path) =
                        IF h.err = NoErr
                        THEN {e \in QuickEntries(c.path) : e[1] = <<c.size, h.hash>>}
                        ELSE {}
          /\ \A i \in 1..Len(candidatePaths) :
                calculateQuickHash(candidatePaths[i].path).err = NoErr
                    => Cardinality(QuickEntries(candidatePaths[i].path)) = 1
          /\ \A p \in DOMAIN fs :
                QuickEntries(p) # {} => \E i \in 1..Len(candidatePaths) :
                                           candidatePaths[i].path = p
          /\ processed = Cardinality(UNION {QuickEntries(p) : p \in DOMAIN fs})
    /\ FullStageOver =>
          \A p \in DOMAIN fs :
              LET given == p \in Range(Flatten(quickDupGroups))
                  ok == calculateFullHash(p).err = NoErr /\ osStat(p).err = NoErr
              IN  /\ Cardinality(FullEntries(p)) = IF given /\ ok THEN 1 ELSE 0
                  /\ \A e \in FullEntries(p) : e[1] = calculateFullHash(p).hash

(* a worker waits for the mutex while the other is inside the update of the *)
(* full-hash map, after the quick stage stored two files under one key      *)
SharedMapsConsistentWitness ==
    /\ pc \in {"produce3", "wait3"}
    /\ \E k \in DOMAIN quickHashMap : Len(quickHashMap[k]) = 2
    /\ \E w \in DOMAIN wpc : \E v \in DOMAIN wpc :
          wpc[w] = "crit" /\ wpc[v] = "lock" /\ wjob[w].Path # wjob[v].Path

(* ------------------------- bounded reads (C25) -------------------------- *)
(* the file a quick-hash worker is fingerprinting in this step *)
QuickHashed == Head(jobs).path

(* C25: calculateQuickHash reads at most two chunks of 8 KiB of a file: a   *)
(* file of at most 16 KiB in full and once, of a larger file the first      *)
(* 8 KiB and the last 8 KiB and nothing else                                *)
QuickHashBoundedReads ==
    [][QuickHashStep =>
          LET reads == quickHashReads(QuickHashed)
              n == Len(ContentOf(QuickHashed))
          IN  /\ Len(reads) * chunkSize <= 2 * 8 * 1024
              /\ (FileSize(QuickHashed) <= 16 * 1024 /\ calculateQuickHash(QuickHashed).err = NoErr)
                    => reads = [i \in 1..n |-> i]
              /\ FileSize(QuickHashed) > 16 * 1024
                    => \A i \in 1..Len(reads) : reads[i] \in {1, n}]_vars

(* ---------------------- failed fingerprints (C26) ----------------------- *)
(* C26: a file whose open, read or seek fails while it is fingerprinted     *)
(* gets no quick digest and stands in no quick-hash group                   *)
FailedQuickHashExcluded ==
    \A k \in DOMAIN quickHashMap : \A i \in 1..Len(quickHashMap[k]) :
        ~calculateQuickHash(quickHashMap[k][i]).ioerr

(* ------------------------ modification race (C27) ----------------------- *)
(* the quick-hash group a path was put in *)
QuickGroupOf(p) ==
    UNION {Range(quickHashMap[k]) : k \in {x \in DOMAIN quickHashMap :
                                              p \in Range(quickHashMap[x])}}

(* what the full hash read of p: no file changes after its full hash *)
ReadAtFullHash(p) == ContentOf(p)

(* C27: a file changed between its quick hash and its full hash is grouped  *)
(* only with files of the full digest of what was read at full-hash time;   *)
(* it is in no group when no other candidate has that digest, and the other *)
(* members of its quick-hash group are grouped among themselves             *)
RaceIsMiss ==
    (Returned /\ result.err = NoErr) =>
        /\ \A i \in 1..Len(Groups) : \A a \in GroupPaths(Groups[i]) :
              Groups[i].Hash = sha256(ReadAtFullHash(a), 0 - 1)
        /\ \A p \in Changed :
              (\A q \in QuickGroupOf(p) \ {p} : ReadAtFullHash(q) # ReadAtFullHash(p))
                  => p \notin GroupedPaths
        /\ \A p \in Changed : \A a, b \in QuickGroupOf(p) \ {p} :
              (a # b /\ ReadAtFullHash(a) = ReadAtFullHash(b)) => TogetherOnce(a, b)

(* a file of a quick-hash group of three was changed to a content of its    *)
(* own and is in no group; the two others were returned as a group          *)
RaceIsMissWitness ==
    /\ Returned
    /\ \E p \in Changed :
          /\ Cardinality(QuickGroupOf(p)) = 3
          /\ p \notin GroupedPaths
          /\ QuickGroupOf(p) \ {p} \subseteq GroupedPaths

(* ---------------------------- termination (C28) ------------------------- *)
(* every job was consumed, the channels that were made are closed and the   *)
(* workers that were started have exited                                    *)
ScanWoundUp ==
    /\ jobs = <<>>
    /\ jobs2 = <<>>
    /\ result.err = NoErr => jobsClosed /\ jobs2Closed
    /\ \A w \in Workers : wpc[w] \in {"off", "done"}
    /\ result.err = NoErr => \A w \in Workers : wpc[w] = "done"
    /\ mu = 0

(* a goroutine of the running scan can take a step *)
NoDeadlock == pc \notin {"idle", "done"} => ENABLED Running

(* C28: with a nil progress channel a Scan that was called returns, under   *)
(* every interleaving of the producer and the workers; when it returns      *)
(* every job sent was consumed, both job channels are closed and every      *)
(* worker has exited; before it returns some goroutine can take a step      *)
ScanTerminates ==
    /\ (pc # "idle") ~> (pc = "done")
    /\ [](pc = "done" => ScanWoundUp)
    /\ []NoDeadlock

(* a scan in which a file was dropped on an error returned a group *)
ScanTerminatesWitness ==
    /\ pc = "done"
    /\ result.err = NoErr
    /\ Len(result.groups) >= 1
    /\ dropped # {}
    /\ ScanWoundUp

(* --------------------------- Trash entries (C29) ------------------------ *)
(* C29: no step of the fallback writes over an entry of the Trash: every    *)
(* item placed in the Trash before is still there, as it was, and the       *)
(* destination directMoveToTrash chooses is not an existing entry           *)
TrashEntriesKept ==
    [][/\ \A k \in DOMAIN trash : k \in DOMAIN trash' /\ trash'[k] = trash[k]
       /\ (mt.pc = "direct" /\ mt'.pc # "direct" /\ items[mt.path].state # "gone")
             => mt'.dest \notin DOMAIN trash]_vars

(* ----------------------- concurrent recording (C30) --------------------- *)
(* the snapshot a RecordSnapshot call built and appended *)
NewSnapshot(c) == hcall[c].snapshots[Len(hcall[c].snapshots)]

(* the calls ran concurrently: each loaded the file before any saved it *)
Overlapped == \A c, d \in HistCallers : hcall[c].prior = hcall[d].prior

(* C30: when two RecordSnapshot calls that ran concurrently on the same     *)
(* history file have both returned nil, the file holds the snapshot of each *)
(* of them and every snapshot they found stored that is younger than 90     *)
(* days                                                                     *)
NoLostSnapshot ==
    (Overlapped /\ \A c \in HistCallers : hcall[c].pc = "done" /\ hcall[c].err = NoErr) =>
        \A c \in HistCallers :
            /\ Count(Stored, NewSnapshot(c))
                  >= Cardinality({d \in HistCallers : NewSnapshot(d) = NewSnapshot(c)})
            /\ \A s \in Range(unmarshal(hcall[c].prior.data)) :
                  (\A d \in HistCallers : s.Timestamp > hcall[d].at - maxHistoryDays * Day)
                      => s \in Range(Stored)

====
